---- MODULE Spec2Model ----
(***************************************************************************)
(* State-machine model of app.py, the StockBot AI Streamlit session:       *)
(* history load, the chat turn handler, the previous-query callback, the   *)
(* top-picks refresh, the stock lookup and the retry loop of               *)
(* get_gemini_response.                                                    *)
(*                                                                         *)
(* One script run handles one widget event.  The chat turn and the         *)
(* top-picks refresh block inside get_gemini_response; the model keeps the *)
(* position inside its retry loop (pc = "calling", attempt) and lets the   *)
(* endpoint answer each network attempt with one response.                 *)
(*                                                                         *)
(* A widget event that arrives while a script run is executing stops that  *)
(* run at its next element call (st.spinner entry or exit, st.success,     *)
(* st.sidebar.error, ...); the statements after that call are not          *)
(* executed.  The model lets a run be stopped at every element call that   *)
(* follows a change of the session state.  A run stopped before its        *)
(* handler has changed anything is a stuttering step.                      *)
(***************************************************************************)
EXTENDS Naturals, Sequences, FiniteSets, TLC

(* ------------------------------ bounds --------------------------------- *)

\* Widget events (script runs after the first) a session handles.
MaxRuns == 3

\* Widget events of the sessions on which termination of the call is
\* checked; the retry loop does not depend on what the session did before.
MaxFairRuns == 2

(* ------------------------- program constants --------------------------- *)

max_retries == 3

SYSTEM_PROMPT == "You are StockBot AI"

TopPicksPlaceholder == "Click 'Refresh Top Picks' to get today's analysis."

TopPicksPrompt == "What are 5 notable top-performing stocks today?"

(* ------------------------------ inputs --------------------------------- *)

\* Texts the user may type in the chat box.  "a1" is also a text the
\* endpoint may answer with, so a user can retype the assistant's reply.
UserTexts == {"q1", "a1"}

\* Text of the first candidate of a well-formed 200 response.
CandidateTexts == {"a1"}

\* What the endpoint can answer to one requests.post: an HTTP response with
\* a status and a body, or a transport-level failure (RequestException).
\* shape tells whether a 200 body has candidates[0].content.parts.
HttpResponse(status, shape, text) ==
    [kind |-> "http", status |-> status, shape |-> shape, text |-> text]

TransportFailure ==
    [kind |-> "transport", status |-> 0, shape |-> "none", text |-> "refused"]

Responses ==
    {HttpResponse(200, "candidates", t) : t \in CandidateTexts}
    \cup {HttpResponse(200, "empty", "")}
    \cup {HttpResponse(429, "none", "quota"), HttpResponse(500, "none", "boom")}
    \cup {TransportFailure}

\* Symbols typed in the lookup field ("" is the empty field).
SymbolInputs == {"", "aapl"}

\* stock.info as the market-data service returns it; a price of 0 stands for
\* a key that is absent (info.get(...) is None); raises models an exception
\* thrown by yf.Ticker / stock.info.
Infos ==
    { [raises |-> TRUE,  currentPrice |-> 0,  regularMarketPrice |-> 0],
      [raises |-> FALSE, currentPrice |-> 0,  regularMarketPrice |-> 0],
      [raises |-> FALSE, currentPrice |-> 10, regularMarketPrice |-> 0],
      [raises |-> FALSE, currentPrice |-> 0,  regularMarketPrice |-> 20] }

(* ----------------------------- messages -------------------------------- *)

Message(role, content) == [role |-> role, content |-> content]

SystemMessage == Message("system", SYSTEM_PROMPT)

UserMessage(text) == Message("user", text)

AssistantMessage(text) == Message("assistant", text)

\* st.session_state["stock_data"] = None
None == [symbol |-> "", currentPrice |-> 0]

\* Python truthiness of stock_data / data: None is falsy, a dict is truthy.
Truthy(data) == data # None

Last(s) == s[Len(s)]

(* --------------------------- load_chat_history ------------------------- *)

\* The messages list a stored document yields: the system prompt is put in
\* front when the stored list does not start with it.
LoadedMessagesAlwaysInsert(stored) == <<SystemMessage>> \o stored

LoadedMessages(stored) ==
    IF stored # <<>>
    THEN IF stored[1].role # "system"
         THEN <<SystemMessage>> \o stored
         ELSE stored
    ELSE <<SystemMessage>>

(* ---------------------------- fetch_stock_data ------------------------- *)

Upper(symbol) ==
    CASE symbol = "aapl" -> "AAPL"
      [] OTHER -> symbol

\* The snapshot dict, or None when the lookup raises or finds no price.
fetch_stock_data(symbol, info) ==
    IF info.raises \/ (info.regularMarketPrice = 0 /\ info.currentPrice = 0)
    THEN None
    ELSE [symbol |-> Upper(symbol),
          currentPrice |-> IF info.currentPrice # 0
                           THEN info.currentPrice
                           ELSE info.regularMarketPrice]

(* --------------------------- context injection ------------------------- *)

ContextText(data) ==
    "CONTEXT: " \o data.symbol \o " $" \o ToString(data.currentPrice)

ContextMessage(data) == UserMessage(ContextText(data))

\* list.insert(i, x) for 0 <= i <= len(list)
Insert(list, i, x) ==
    SubSeq(list, 1, i) \o <<x>> \o SubSeq(list, i + 1, Len(list))

InjectContextAtEnd(conversation, data) ==
    IF Truthy(data)
    THEN Append(conversation, ContextMessage(data))
    ELSE conversation

\* api_messages: a copy of the Conversation, with the context message
\* inserted at index len - 1 when a snapshot is active.
InjectContext(conversation, data) ==
    IF Truthy(data)
    THEN Insert(conversation, Len(conversation) - 1, ContextMessage(data))
    ELSE conversation

(* --------------------------- get_gemini_response ----------------------- *)

ConfigErrorText == "Configuration Error: GEMINI_API_KEY is not set"

ApiResponseErrorText == "API Response Error: empty or unexpected response structure"

HttpErrorText(status, body) ==
    "HTTP Error (Gemini): Status " \o ToString(status) \o ". Error: " \o body

ConnectionErrorText(err) == "Connection Error (Gemini): " \o err

RetriesExhaustedText ==
    "Error: Failed to get a response after multiple retries due to rate limiting."

\* response.raise_for_status() raises HTTPError for 4xx and 5xx.
RaisesHttpError(resp) == resp.kind = "http" /\ resp.status >= 400

RetryAllowedAnyStatus(status, att) == att < max_retries - 1

\* The condition under which an HTTPError leads to a sleep and a retry.
RetryAllowed(status, att) == status = 429 /\ att < max_retries - 1

WaitTimeLinear(att) == 2 * att

WaitTime(att) == 2 ^ att

\* One iteration of the retry loop on the answer resp to attempt att:
\* the loop either returns a reply or sleeps and goes on.
AttemptOutcome(att, resp) ==
    IF resp.kind = "transport"
    THEN [returns |-> TRUE, reply |-> ConnectionErrorText(resp.text), sleep |-> 0]
    ELSE IF RaisesHttpError(resp)
    THEN IF RetryAllowed(resp.status, att)
         THEN [returns |-> FALSE, reply |-> "", sleep |-> WaitTime(att)]
         ELSE [returns |-> TRUE,
               reply |-> HttpErrorText(resp.status, resp.text), sleep |-> 0]
    ELSE IF resp.shape = "candidates"
    THEN [returns |-> TRUE, reply |-> resp.text, sleep |-> 0]
    ELSE [returns |-> TRUE, reply |-> ApiResponseErrorText, sleep |-> 0]

(* ------------------------------- state --------------------------------- *)

VARIABLES
    pc,                  \* "start" | "idle" | "calling" (inside get_gemini_response)
    last_op,             \* the handler the latest script run executes / executed
    GEMINI_API_KEY,      \* TRUE when the credential is set
    is_auth_ready,       \* st.session_state.is_auth_ready
    history_loaded,      \* "history_loaded" in st.session_state
    history_doc_ref,     \* TRUE when st.session_state.history_doc_ref is set
    doc,                 \* messages of the persisted document, <<>> when absent
    messages,            \* st.session_state["messages"], the Conversation
    stock_data,          \* st.session_state["stock_data"], the active Snapshot
    chat_input_text,     \* st.session_state["chat_input_text"]
    top_stocks_analysis, \* st.session_state["top_stocks_analysis"]
    api_messages,        \* the outbound sequence of the latest call
    attempt,             \* loop variable of the retry loop
    responses,           \* answers received by the latest call, in order
    sleeps,              \* time.sleep durations of the latest call, in order
    bot_reply,           \* value returned by the latest call
    user_input,          \* value of st.chat_input in the latest script run,
                         \* "" when nothing was submitted (None)
    set_calls,           \* payloads of history_doc_ref.set() in the latest script run
    store_failed,        \* TRUE once a store operation of the session has failed
    notice,              \* lookup notice of the latest script run:
                         \* "success" | "error" | "warning" | "none"
    lookup,              \* outcome of fetch_stock_data in the latest script
                         \* run: "found" | "failed" | "none" (not called)
    stopped_at,          \* element call at which a pending widget event has
                         \* stopped the latest script run, "none" otherwise
    runs                 \* widget events handled so far

vars == <<pc, last_op, GEMINI_API_KEY, is_auth_ready, history_loaded,
          history_doc_ref, doc, messages, stock_data, chat_input_text,
          top_stocks_analysis, api_messages, attempt, responses, sleeps,
          bot_reply, user_input, set_calls, store_failed, notice, lookup,
          stopped_at, runs>>

config == <<GEMINI_API_KEY, is_auth_ready>>

call == <<api_messages, attempt, responses, sleeps, bot_reply, user_input>>

\* A script run that makes no call to get_gemini_response.
NoCall ==
    /\ api_messages' = <<>>
    /\ attempt' = 0
    /\ responses' = <<>>
    /\ sleeps' = <<>>
    /\ bot_reply' = ""
    /\ user_input' = ""

\* A widget event starts a script run.
NewRun == runs < MaxRuns /\ runs' = runs + 1

\* A script run in which the lookup handler does not run.
NoNotice == notice' = "none" /\ lookup' = "none"

\* Documents the store may hold when a session starts: none, or a
\* Conversation a previous session of this program has saved.
InitDocs ==
    { <<>>,
      <<SystemMessage, UserMessage("q1"), AssistantMessage("a1")>> }

Init ==
    /\ pc = "start"
    /\ last_op = "none"
    /\ GEMINI_API_KEY \in BOOLEAN
    /\ is_auth_ready \in BOOLEAN
    /\ history_loaded = FALSE
    /\ history_doc_ref = FALSE
    /\ doc \in IF is_auth_ready THEN InitDocs ELSE {<<>>}
    /\ messages = <<>>
    /\ stock_data = None
    /\ chat_input_text = ""
    /\ top_stocks_analysis = TopPicksPlaceholder
    /\ api_messages = <<>>
    /\ attempt = 0
    /\ responses = <<>>
    /\ sleeps = <<>>
    /\ bot_reply = ""
    /\ user_input = ""
    /\ set_calls = <<>>
    /\ store_failed = ~is_auth_ready
    /\ notice = "none"
    /\ lookup = "none"
    /\ stopped_at = "none"
    /\ runs = 0

(* ------------------------------ actions -------------------------------- *)

\* First script run with Firestore ready: load_chat_history, then rerun.
\* getOk = FALSE models doc_ref.get() raising.
LoadChatHistory ==
    /\ pc = "start"
    /\ is_auth_ready /\ ~history_loaded
    /\ \E getOk \in BOOLEAN :
        /\ messages' = IF getOk THEN LoadedMessages(doc) ELSE <<SystemMessage>>
        /\ history_doc_ref' = getOk
        /\ store_failed' = (store_failed \/ ~getOk)
    /\ history_loaded' = TRUE
    /\ pc' = "idle"
    /\ last_op' = "load"
    /\ set_calls' = <<>>
    /\ UNCHANGED <<config, doc, stock_data, chat_input_text,
                   top_stocks_analysis, call, notice, lookup, stopped_at,
                   runs>>

\* First script run without Firestore: the state initialization block.
StateInit ==
    /\ pc = "start"
    /\ ~is_auth_ready
    /\ messages' = <<SystemMessage>>
    /\ pc' = "idle"
    /\ last_op' = "init"
    /\ set_calls' = <<>>
    /\ UNCHANGED <<config, history_loaded, history_doc_ref, doc, stock_data,
                   chat_input_text, top_stocks_analysis, call, store_failed,
                   notice, lookup, stopped_at, runs>>

\* The user queries shown as buttons in the Previous Queries expander.
user_queries == {messages[i].content : i \in {j \in DOMAIN messages : messages[j].role = "user"}}

\* Click on a previous-query button: the callback runs, then the script
\* reruns with st.chat_input returning None, so the chat logic is skipped.
SetChatInput ==
    /\ pc = "idle"
    /\ NewRun
    /\ \E query \in user_queries :
        /\ chat_input_text' = query
        /\ messages' = Append(messages, UserMessage(query))
    /\ last_op' = "replay"
    /\ NoNotice
    /\ stopped_at' = "none"
    /\ set_calls' = <<>>
    /\ NoCall
    /\ UNCHANGED <<pc, config, history_loaded, history_doc_ref, doc, stock_data,
                   top_stocks_analysis, store_failed>>

\* What is handed to history_doc_ref.set(): the whole messages list.
SavedMessagesBeforeReply(conversation) == SubSeq(conversation, 1, Len(conversation) - 1)

SavedMessages(conversation) == conversation

\* Steps 3 and 4 of the chat turn: append the reply, save the history.
\* setOk = FALSE models history_doc_ref.set() raising.
FinishChatTurn(conversation, reply) ==
    /\ messages' = Append(conversation, AssistantMessage(reply))
    /\ bot_reply' = reply
    /\ pc' = "idle"
    /\ stopped_at' = "none"
    /\ IF history_doc_ref
       THEN \E setOk \in BOOLEAN :
              /\ set_calls' = <<SavedMessages(messages')>>
              /\ doc' = IF setOk THEN SavedMessages(messages') ELSE doc
              /\ store_failed' = (store_failed \/ ~setOk)
       ELSE /\ set_calls' = <<>>
            /\ UNCHANGED <<doc, store_failed>>

\* The chat turn stopped by a pending widget event at the entry of
\* st.spinner (before the call, reply "") or at its exit (after the call):
\* the reply is not appended and the history is not saved.
StopChatTurn(conversation, reply, element) ==
    /\ messages' = conversation
    /\ bot_reply' = reply
    /\ pc' = "idle"
    /\ stopped_at' = element
    /\ set_calls' = <<>>
    /\ UNCHANGED <<doc, store_failed>>

\* The end of the chat turn once the call has returned reply.
EndChatTurn(conversation, reply) ==
    \E stop \in BOOLEAN :
      IF stop
      THEN StopChatTurn(conversation, reply, "spinner_exit")
      ELSE FinishChatTurn(conversation, reply)

\* Refresh Top Picks stores the reply and reruns.
FinishTopPicks(reply) ==
    /\ top_stocks_analysis' = reply
    /\ bot_reply' = reply
    /\ pc' = "idle"
    /\ stopped_at' = "none"
    /\ set_calls' = <<>>
    /\ UNCHANGED <<messages, doc, store_failed>>

\* The duplicate guard: the text is appended unless it equals the content
\* of the last stored message.
WithUserInput(conversation, text) ==
    IF ~(Last(conversation).content = text)
    THEN Append(conversation, UserMessage(text))
    ELSE conversation

\* Chat box submission: steps 1 and 2 of the chat turn and the entry of
\* get_gemini_response (credential check).
ChatSubmit ==
    /\ pc = "idle"
    /\ NewRun
    /\ \E text \in UserTexts, stop \in BOOLEAN :
        LET conversation == WithUserInput(messages, text) IN
        /\ user_input' = text
        /\ api_messages' = InjectContext(conversation, stock_data)
        /\ attempt' = 0
        /\ responses' = <<>>
        /\ sleeps' = <<>>
        /\ last_op' = "chat"
        /\ IF stop
           THEN StopChatTurn(conversation, "", "spinner_enter")
           ELSE IF ~GEMINI_API_KEY
           THEN EndChatTurn(conversation, ConfigErrorText)
           ELSE /\ pc' = "calling"
                /\ messages' = conversation
                /\ set_calls' = <<>>
                /\ stopped_at' = "none"
                /\ UNCHANGED <<bot_reply, doc, store_failed>>
    /\ NoNotice
    /\ UNCHANGED <<config, history_loaded, history_doc_ref, stock_data,
                   chat_input_text, top_stocks_analysis>>

\* Refresh Top Picks button: fetch_top_stocks_analysis and the entry of
\* get_gemini_response.
RefreshTopPicks ==
    /\ pc = "idle"
    /\ NewRun
    /\ api_messages' = <<SystemMessage, UserMessage(TopPicksPrompt)>>
    /\ user_input' = ""
    /\ attempt' = 0
    /\ responses' = <<>>
    /\ sleeps' = <<>>
    /\ last_op' = "picks"
    /\ IF ~GEMINI_API_KEY
       THEN FinishTopPicks(ConfigErrorText)
       ELSE /\ pc' = "calling"
            /\ set_calls' = <<>>
            /\ stopped_at' = "none"
            /\ UNCHANGED <<bot_reply, messages, top_stocks_analysis, doc,
                           store_failed>>
    /\ NoNotice
    /\ UNCHANGED <<config, history_loaded, history_doc_ref, stock_data,
                   chat_input_text>>

\* The caller's continuation once get_gemini_response has returned.
Return(reply) ==
    IF last_op = "chat"
    THEN EndChatTurn(messages, reply) /\ UNCHANGED top_stocks_analysis
    ELSE FinishTopPicks(reply)

\* One iteration of the retry loop: the endpoint answers the POST.
GeminiAttempt ==
    /\ pc = "calling"
    /\ \E resp \in Responses :
        LET out == AttemptOutcome(attempt, resp) IN
        /\ responses' = Append(responses, resp)
        /\ IF out.returns
           THEN /\ Return(out.reply)
                /\ UNCHANGED <<attempt, sleeps>>
           ELSE /\ sleeps' = Append(sleeps, out.sleep)
                /\ attempt' = attempt + 1
                /\ IF attempt + 1 < max_retries
                   THEN UNCHANGED <<pc, bot_reply, messages, doc, set_calls,
                                    store_failed, top_stocks_analysis,
                                    stopped_at>>
                   ELSE Return(RetriesExhaustedText)
    /\ UNCHANGED <<last_op, config, history_loaded, history_doc_ref, stock_data,
                   chat_input_text, api_messages, user_input, notice, lookup,
                   runs>>

\* The Conversation after the lookup handler has run with result data.
MessagesAfterLookup(conversation, data) ==
    IF Truthy(data) THEN <<SystemMessage>> ELSE conversation

\* Fetch and Set Context button.  A widget event that arrives during the
\* fetch stops the run at the first element call after it: st.sidebar.error
\* inside fetch_stock_data on a failure (before stock_data is assigned),
\* st.success on a success (after stock_data is assigned, before messages
\* is reset).
FetchAndSetContext ==
    /\ pc = "idle"
    /\ NewRun
    /\ \E symbol_input \in SymbolInputs, info \in Infos, stop \in BOOLEAN :
        IF symbol_input # ""
        THEN LET data == fetch_stock_data(symbol_input, info) IN
             /\ lookup' = IF Truthy(data) THEN "found" ELSE "failed"
             /\ IF stop
                THEN /\ notice' = "none"
                     /\ IF Truthy(data)
                        THEN /\ stock_data' = data
                             /\ stopped_at' = "st.success"
                        ELSE /\ stock_data' = stock_data
                             /\ stopped_at' = "st.sidebar.error"
                     /\ messages' = messages
                ELSE /\ stock_data' = data
                     /\ messages' = MessagesAfterLookup(messages, data)
                     /\ notice' = IF Truthy(data) THEN "success" ELSE "error"
                     /\ stopped_at' = "none"
        ELSE /\ notice' = "warning"
             /\ lookup' = "none"
             /\ stopped_at' = "none"
             /\ UNCHANGED <<stock_data, messages>>
    /\ last_op' = "lookup"
    /\ set_calls' = <<>>
    /\ NoCall
    /\ UNCHANGED <<pc, config, history_loaded, history_doc_ref, doc,
                   chat_input_text, top_stocks_analysis, store_failed>>

Next ==
    \/ LoadChatHistory
    \/ StateInit
    \/ SetChatInput
    \/ ChatSubmit
    \/ RefreshTopPicks
    \/ GeminiAttempt
    \/ FetchAndSetContext

Spec == Init /\ [][Next]_vars

\* The endpoint answers every network attempt.
FairSpec ==
    /\ Init
    /\ [][Next /\ runs' <= MaxFairRuns]_vars
    /\ WF_vars(GeminiAttempt)

(* ------------------------------ properties ----------------------------- *)

\* The latest script run called get_gemini_response and the call has
\* returned; responses, sleeps and bot_reply describe that call.
CallReturned ==
    pc = "idle" /\ last_op \in {"chat", "picks"} /\ stopped_at # "spinner_enter"

IsRateLimit(resp) == resp.kind = "http" /\ resp.status = 429

\* The chat turn of the latest script run has run to its end.
ChatTurnCompleted == pc = "idle" /\ last_op = "chat" /\ stopped_at = "none"

\* The Conversation as it was when the outbound sequence of the latest chat
\* turn was built: the reply is appended to it when the turn completes.
ConversationAtCall ==
    IF ChatTurnCompleted
    THEN SubSeq(messages, 1, Len(messages) - 1)
    ELSE messages

IsPrefix(s, t) == Len(s) <= Len(t) /\ SubSeq(t, 1, Len(s)) = s

\* C1: a call whose 3 network attempts were all answered with HTTP 429
\* returns the fixed "Failed to get a response after multiple retries due to
\* rate limiting" string.
C1_ExhaustedRetriesReturnFixedText ==
    ( /\ CallReturned
      /\ Len(responses) = max_retries
      /\ \A i \in DOMAIN responses : IsRateLimit(responses[i]) )
    => bot_reply = RetriesExhaustedText

\* C2 (state part): a call makes at most 3 network attempts and at most 2
\* sleeps; the i-th sleep directly follows a 429 on attempt index i-1 in
\* {0, 1} and lasts 2^(i-1) seconds; with responses 429, 429, 200 the call
\* returns the first candidate's text after sleeps of 1s then 2s.
C2_RetryBounds ==
    /\ Len(responses) <= 3
    /\ Len(sleeps) <= 2
    /\ Len(sleeps) <= Len(responses)
    /\ \A i \in DOMAIN sleeps :
         /\ IsRateLimit(responses[i])
         /\ i - 1 \in {0, 1}
         /\ sleeps[i] = 2 ^ (i - 1)
    /\ \A t \in CandidateTexts :
         ( /\ CallReturned
           /\ responses = << HttpResponse(429, "none", "quota"),
                             HttpResponse(429, "none", "quota"),
                             HttpResponse(200, "candidates", t) >> )
         => (bot_reply = t /\ sleeps = <<1, 2>>)

\* C2: the retry bounds hold in every state and, the endpoint answering
\* every attempt, every call to get_gemini_response returns.
C2_BoundedRetryTerminates ==
    /\ []C2_RetryBounds
    /\ (pc = "calling") ~> (pc = "idle")

C2_Witness ==
    /\ CallReturned
    /\ responses = << HttpResponse(429, "none", "quota"),
                      HttpResponse(429, "none", "quota"),
                      HttpResponse(200, "candidates", "a1") >>
    /\ sleeps = <<1, 2>>
    /\ bot_reply = "a1"

\* C3: every response but the last of a call is a 429; without a credential
\* the call returns the configuration error with no network attempt; a call
\* whose last response is a non-429 HTTP error or a transport failure
\* returns the matching error string (with the status code) and has not
\* slept after that response.
C3_RetryOnlyAfterRateLimit ==
    /\ \A i \in 1..(Len(responses) - 1) : IsRateLimit(responses[i])
    /\ pc = "calling" => \A i \in DOMAIN responses : IsRateLimit(responses[i])
    /\ (last_op \in {"chat", "picks"} /\ ~GEMINI_API_KEY)
         => /\ pc = "idle" /\ responses = <<>> /\ sleeps = <<>>
            /\ CallReturned => bot_reply = ConfigErrorText
    /\ (CallReturned /\ responses # <<>>)
         => LET r == Last(responses) IN
            /\ (RaisesHttpError(r) /\ r.status # 429)
                 => /\ bot_reply = HttpErrorText(r.status, r.text)
                    /\ Len(sleeps) = Len(responses) - 1
            /\ r.kind = "transport"
                 => /\ bot_reply = ConnectionErrorText(r.text)
                    /\ Len(sleeps) = Len(responses) - 1

C3_Witness ==
    /\ CallReturned
    /\ responses = << HttpResponse(429, "none", "quota"),
                      HttpResponse(500, "none", "boom") >>
    /\ sleeps = <<1>>
    /\ bot_reply = HttpErrorText(500, "boom")

\* C4: when a script run that accepted a user input (chat box or replay
\* button) is over, a generation call has been made in it and its reply is
\* the assistant message at the end of the Conversation; no user message of
\* the Conversation is left without an assistant message after it.
C4_EveryAcceptedInputIsAnswered ==
    pc = "idle" =>
      /\ last_op \in {"chat", "replay"}
           => (api_messages # <<>> /\ Last(messages) = AssistantMessage(bot_reply))
      /\ \A i \in DOMAIN messages :
           messages[i].role = "user"
             => (i < Len(messages) /\ messages[i + 1].role = "assistant")

\* C5 (state part): in a chat turn, with n the length of the Conversation
\* the outbound sequence was built from, an active Snapshot gives an
\* outbound sequence of length n+1 that agrees with the Conversation on the
\* first n-1 elements, has the context message next and the Conversation's
\* last element last; without a Snapshot it equals the Conversation.
C5_OutboundShape ==
    (last_op = "chat" /\ pc # "start") =>
      LET conv == ConversationAtCall
          n == Len(conv) IN
      /\ n >= 1
      /\ IF Truthy(stock_data)
         THEN /\ Len(api_messages) = n + 1
              /\ \A i \in 1..(n - 1) : api_messages[i] = conv[i]
              /\ api_messages[n] = ContextMessage(stock_data)
              /\ api_messages[n + 1] = conv[n]
         ELSE api_messages = conv

\* C5 (step part): building the outbound sequence leaves the stored
\* Conversation as it was, but for the user message of the turn.
C5_ConversationKept ==
    (pc = "idle" /\ last_op' = "chat" /\ runs' # runs) =>
      \/ ConversationAtCall' = messages
      \/ \E t \in UserTexts : ConversationAtCall' = Append(messages, UserMessage(t))

\* C5: context injection puts the context message right before the last
\* element of a copy of the Conversation and leaves the Conversation alone.
C5_ContextInjection ==
    /\ []C5_OutboundShape
    /\ [][C5_ConversationKept]_vars

C5_Witness ==
    /\ pc = "calling"
    /\ last_op = "chat"
    /\ Truthy(stock_data)
    /\ Len(messages) >= 3
    /\ Len(api_messages) = Len(messages) + 1
    /\ api_messages[Len(messages)] = ContextMessage(stock_data)

\* C6: the Conversation never holds two user messages with the same text
\* next to each other (a text submitted twice in immediate succession is
\* stored once).
C6_NoAdjacentDuplicateUserMessage ==
    \A i \in 1..(Len(messages) - 1) :
      ~ ( /\ messages[i].role = "user"
          /\ messages[i + 1].role = "user"
          /\ messages[i].content = messages[i + 1].content )

\* C7 (state part): after a completed chat turn of a session whose store
\* has answered every operation, the script run has made exactly one set()
\* and the persisted messages are the whole Conversation, ending with the
\* assistant message just appended; a script run that does not complete a
\* chat turn makes no set().
C7_SavedAfterTurn ==
    /\ (ChatTurnCompleted /\ ~store_failed)
         => /\ Len(set_calls) = 1
            /\ set_calls[1] = messages
            /\ doc = messages
            /\ Last(messages) = AssistantMessage(bot_reply)
    /\ Len(set_calls) <= 1
    /\ ~ChatTurnCompleted => set_calls = <<>>

\* C7 (step part): the persisted document changes only in the step that
\* completes a chat turn, and then to the whole Conversation.
C7_WriteOnlyAtTurnEnd ==
    doc' # doc =>
      /\ ChatTurnCompleted'
      /\ doc' = messages'
      /\ set_calls' = <<messages'>>

\* C7: one full-overwrite write per completed chat turn, of the whole
\* Conversation, and no write at any other time.
C7_CheckpointEveryTurn ==
    /\ []C7_SavedAfterTurn
    /\ [][C7_WriteOnlyAtTurnEnd]_vars

C7_Witness ==
    /\ ChatTurnCompleted
    /\ ~store_failed
    /\ bot_reply = HttpErrorText(500, "boom")
    /\ set_calls = <<messages>>
    /\ doc = messages
    /\ Last(messages) = AssistantMessage(HttpErrorText(500, "boom"))

\* C8: a lookup that succeeds replaces the Conversation with the single
\* system message; a lookup that fails, or an empty symbol, leaves the
\* Conversation as it was.
C8_LookupStep ==
    (last_op' = "lookup" /\ runs' # runs) =>
      IF lookup' = "found"
      THEN messages' = <<SystemMessage>>
      ELSE messages' = messages

C8_LookupResetsOnlyOnSuccess == [][C8_LookupStep]_vars

\* C9 (state part): once the session is set up, the Conversation holds
\* exactly one system message, at index 0.
C9_OneSystemFirst ==
    pc # "start" =>
      /\ Len(messages) >= 1
      /\ messages[1].role = "system"
      /\ \A i \in 2..Len(messages) : messages[i].role \in {"user", "assistant"}

\* C9 (step part): after set-up a step either extends the Conversation at
\* its end or resets it to the single system message.
C9_AppendOrReset ==
    pc # "start" =>
      \/ IsPrefix(messages, messages')
      \/ messages' = <<SystemMessage>>

\* C9: exactly one system message, always first; the Conversation is only
\* appended to or reset.
C9_SystemMessageInvariant ==
    /\ []C9_OneSystemFirst
    /\ [][C9_AppendOrReset]_vars

C9_Witness ==
    /\ pc = "idle"
    /\ history_doc_ref
    /\ last_op = "replay"
    /\ Len(messages) >= 6

\* C10: an active Snapshot changes only in a script run whose lookup
\* succeeds.
C10_SnapshotStep ==
    (Truthy(stock_data) /\ stock_data' # stock_data) =>
      (last_op' = "lookup" /\ lookup' = "found")

C10_SnapshotKeptUntilReplaced == [][C10_SnapshotStep]_vars

\* C11: in every chat turn the Conversation the outbound sequence is built
\* from ends with a user message holding the submitted text, so that with
\* an active Snapshot the outbound sequence ends with the context message
\* followed by that user message, and the assistant reply is appended
\* directly after a user message.
C11_CallAfterNewestUserTurn ==
    (last_op = "chat" /\ pc # "start") =>
      LET conv == ConversationAtCall
          n == Len(api_messages) IN
      /\ Last(conv) = UserMessage(user_input)
      /\ Truthy(stock_data)
           => /\ n >= 2
              /\ api_messages[n - 1] = ContextMessage(stock_data)
              /\ api_messages[n] = UserMessage(user_input)
      /\ ChatTurnCompleted
           => /\ Last(messages).role = "assistant"
              /\ messages[Len(messages) - 1].role = "user"

====
